---- MODULE Spec2Model ----
(***************************************************************************)
(* Model of src/bc/de.rs: the Baichuan message deserializer.               *)
(*                                                                         *)
(* The parser functions (bc_header, bc_body, bc_legacy_login_msg,          *)
(* bc_modern_msg, bc_msg) are operators over byte sequences; they return a *)
(* nom IResult, modelled as a record                                       *)
(*    [kind, rest, val, needed, code]                                      *)
(* with kind in {"Ok", "Incomplete", "Error", "Panic"}.  The driver        *)
(* read_from_reader is a state machine (Spec); SpecParse applies the       *)
(* parsers to arbitrary buffers, as the unit tests of de.rs do; SpecTwice  *)
(* runs Bc::deserialize twice on the same bytes.                           *)
(*                                                                         *)
(* nom is the 5.x series: de.rs combines the function combinators of       *)
(* nom::bytes::streaming / nom::number::streaming (introduced in 5.0) with *)
(* `Needed::Size(len) => len` followed by `to_read as u64` (line 51, 57),  *)
(* which only types while Size carries a plain usize (it carries a         *)
(* NonZeroUsize from 6.0 on).  In nom 5 the streaming primitives report    *)
(* Needed::Size(c) with c the number of bytes the primitive asked for, not *)
(* the number still missing.                                               *)
(*                                                                         *)
(* A u32 is a record [hi, lo] of two 16-bit halves, so that the whole      *)
(* 32-bit range and its wrap-around are represented exactly.               *)
(***************************************************************************)
EXTENDS Integers, Sequences, FiniteSets, TLC

VARIABLES
    overflow_checks, \* build setting: TRUE = overflow checks on (debug profile)
    rdr,             \* bytes the byte source has still to deliver (`rdr`)
    input,           \* accumulation buffer (`input`, de.rs:44)
    pc,              \* position of the call
    to_read,         \* `to_read` (de.rs:46), a usize
    limit,           \* bytes the Take adapter may still deliver (de.rs:57)
    got,             \* bytes appended so far by the running read_to_end
    eof_seen,        \* the source has returned 0 bytes in this call
    last_read,       \* what the last read call on the source returned
    hout,            \* outcome of the last bc_header run
    out,             \* outcome of the last bc_msg run
    result,          \* value returned by read_from_reader / Bc::deserialize
    context,         \* the caller's BcContext, passed by reference (de.rs:32)
    call,            \* which Bc::deserialize call on these bytes is running
    first            \* how the call before this one ended

\* what the caller carries from one Bc::deserialize call to the next
session == <<context, call, first>>

vars == <<overflow_checks, rdr, input, pc, to_read, limit, got, eof_seen, last_read,
          hout, out, result, session>>

-----------------------------------------------------------------------------
(* Bounds of the explored inputs *)

\* longest plaintext chosen for the xml segment and for the payload segment
MaxSegLen == 2
\* bytes that follow the message in the stream (start of the next message)
MaxTrailer == 1

-----------------------------------------------------------------------------
(* Unsigned 32-bit integers *)

Half == 65536

U32(n) == [hi |-> 0, lo |-> n]

U32Zero == U32(0)

U32Lt(a, b) == a.hi < b.hi \/ (a.hi = b.hi /\ a.lo < b.lo)

\* a value of `usize`/`u32` compared with a buffer length (a small natural)
GtLen(c, n) == c.hi > 0 \/ c.lo > n

\* u32 subtraction modulo 2^32 (what `-` computes without overflow checks)
wrapping_sub(a, b) ==
    LET borrow == IF a.lo < b.lo THEN 1 ELSE 0
    IN  [hi |-> ((a.hi - b.hi) - borrow + 2 * Half) % Half,
         lo |-> ((a.lo - b.lo) + Half) % Half]

\* usize minus a small natural n, for c >= n
SubSmall(c, n) ==
    IF c.lo >= n THEN [hi |-> c.hi, lo |-> c.lo - n]
    ELSE [hi |-> c.hi - 1, lo |-> c.lo + Half - n]

\* min(c, n) for a usize c and a small natural n
MinLen(c, n) == IF GtLen(c, n) THEN n ELSE c.lo

-----------------------------------------------------------------------------
(* Bytes *)

Drop(s, n) == SubSeq(s, n + 1, Len(s))

Prefix(s, n) == SubSeq(s, 1, n)

RECURSIVE Xor(_, _)
\* bitwise exclusive or of two naturals
Xor(a, b) ==
    IF a = 0 THEN b
    ELSE IF b = 0 THEN a
    ELSE (((a % 2) + (b % 2)) % 2) + 2 * Xor(a \div 2, b \div 2)

-----------------------------------------------------------------------------
(* nom results *)

NoVal == <<>>

IOk(rest, val) ==
    [kind |-> "Ok", rest |-> rest, val |-> val, needed |-> U32Zero, code |-> "-"]

IIncomplete(n) ==
    [kind |-> "Incomplete", rest |-> <<>>, val |-> NoVal, needed |-> n, code |-> "-"]

IError(rest, code) ==
    [kind |-> "Error", rest |-> rest, val |-> NoVal, needed |-> U32Zero, code |-> code]

\* the thread panicked while the parser ran: no IResult is produced
IPanic ==
    [kind |-> "Panic", rest |-> <<>>, val |-> NoVal, needed |-> U32Zero,
     code |-> "attempt to subtract with overflow"]

\* nothing has been run yet
INone ==
    [kind |-> "None", rest |-> <<>>, val |-> NoVal, needed |-> U32Zero, code |-> "-"]

None == [some |-> FALSE, v |-> NoVal]

Some(x) == [some |-> TRUE, v |-> x]

-----------------------------------------------------------------------------
(* nom 5 streaming primitives, as de.rs uses them *)

le_u8(i) ==
    IF Len(i) < 1 THEN IIncomplete(U32(1))
    ELSE IOk(Drop(i, 1), i[1])

\* le_u16 reporting the bytes still missing (the behaviour of nom 6)
le_u16_missing(i) ==
    IF Len(i) < 2 THEN IIncomplete(U32(2 - Len(i)))
    ELSE IOk(Drop(i, 2), i[1] + 256 * i[2])

le_u16(i) ==
    IF Len(i) < 2 THEN IIncomplete(U32(2))
    ELSE IOk(Drop(i, 2), i[1] + 256 * i[2])

le_u32(i) ==
    IF Len(i) < 4 THEN IIncomplete(U32(4))
    ELSE IOk(Drop(i, 4), [hi |-> i[3] + 256 * i[4], lo |-> i[1] + 256 * i[2]])

\* take(count): count bytes, or Incomplete(Size(count))
take(count, i) ==
    IF GtLen(count, Len(i)) THEN IIncomplete(count)
    ELSE IOk(Drop(i, count.lo), Prefix(i, count.lo))

-----------------------------------------------------------------------------
(* Declarations of bc/model.rs, bc/xml.rs and bc/xml_crypto.rs that de.rs    *)
(* imports (lines 1-3)                                                      *)

\* MAGIC_HEADER = 0x0abcdef0, on the wire f0 de bc 0a
MAGIC_HEADER == [hi |-> 2748, lo |-> 57072]

MSG_ID_LOGIN == U32(1)

\* class codes: 0x6514 legacy, 0x6614 modern (20-byte header),
\* 0x6414 and 0x0000 modern with payload_offset (24-byte header)
CLASS_LEGACY == 25876

CLASS_MODERN_20 == 26132

CLASS_MODERN_24 == 25620

CLASS_MODERN_24_ALT == 0

\* the extended-header set: the classes whose header carries payload_offset
has_payload_offset(class) == class \in {CLASS_MODERN_24, CLASS_MODERN_24_ALT}

\* BcHeader::is_modern: the era flag is the class code
is_modern(header) == header.class # CLASS_LEGACY

\* BcHeader::is_encrypted
is_encrypted(header) == header.encrypted

\* BcHeader::to_meta: the header summary kept in Bc.meta
to_meta(header) == [msg_id |-> header.msg_id, class |-> header.class]

XML_KEY == <<31, 45, 60, 75, 90, 105, 120, 255>>

\* xml_crypto::crypt: byte i is xored with the key byte at (offset + i) mod 8
\* and with the low byte of offset; length-preserving and its own inverse
crypt(offset, buf) ==
    [i \in 1..Len(buf) |->
        Xor(Xor(buf[i], XML_KEY[(((offset.lo % 8) + (i - 1)) % 8) + 1]), offset.lo % 256)]

\* The XML codec.  A document is <tag byte> ... <closing byte>; BcXml is the
\* `body` document, BcXmls accepts the `body` document and the `Extension`
\* document.  A parsed document is represented by its plaintext.
TAG_BODY == 98

TAG_EXTENSION == 69

TAG_CLOSE == 62

Framed(s) == Len(s) >= 2 /\ s[Len(s)] = TAG_CLOSE

\* Result<_, _>: ok is TRUE with the document, or FALSE
BcXml_try_parse(s) ==
    IF Framed(s) /\ s[1] = TAG_BODY THEN [ok |-> TRUE, doc |-> s]
    ELSE [ok |-> FALSE, doc |-> <<>>]

BcXmls_try_parse(s) ==
    IF Framed(s) /\ s[1] \in {TAG_BODY, TAG_EXTENSION} THEN [ok |-> TRUE, doc |-> s]
    ELSE [ok |-> FALSE, doc |-> <<>>]

-----------------------------------------------------------------------------
(* String::from_utf8 (de.rs:98): well-formed UTF-8, Unicode table 3-7 *)

Cont(b) == b >= 128 /\ b <= 191

RECURSIVE Utf8From(_, _)
\* bytes s[k..] are a sequence of well-formed UTF-8 scalar values
Utf8From(s, k) ==
    IF k > Len(s) THEN TRUE
    ELSE LET b  == s[k]
             n  == Len(s) - k + 1
         IN  IF b <= 127 THEN Utf8From(s, k + 1)
             ELSE IF b >= 194 /\ b <= 223
                  THEN n >= 2 /\ Cont(s[k + 1]) /\ Utf8From(s, k + 2)
             ELSE IF b >= 224 /\ b <= 239
                  THEN /\ n >= 3
                       /\ s[k + 1] >= (IF b = 224 THEN 160 ELSE 128)
                       /\ s[k + 1] <= (IF b = 237 THEN 159 ELSE 191)
                       /\ Cont(s[k + 2])
                       /\ Utf8From(s, k + 3)
             ELSE IF b >= 240 /\ b <= 244
                  THEN /\ n >= 4
                       /\ s[k + 1] >= (IF b = 240 THEN 144 ELSE 128)
                       /\ s[k + 1] <= (IF b = 244 THEN 143 ELSE 191)
                       /\ Cont(s[k + 2])
                       /\ Cont(s[k + 3])
                       /\ Utf8From(s, k + 4)
             ELSE FALSE

from_utf8_ok(s) == Utf8From(s, 1)

-----------------------------------------------------------------------------
(* The parsers of de.rs.  A `?` is a stage: the operator that follows it    *)
(* receives the IResult of the step before and returns it unchanged unless *)
(* it is Ok.                                                               *)

Failed(r) == r.kind # "Ok"

\* verify_magic comparing the low 16 bits of the magic only
verify_magic_low_half(buf, r) ==
    IF Failed(r) THEN r
    ELSE IF r.val.lo # MAGIC_HEADER.lo THEN IError(buf, "Verify")
    ELSE r

\* verify(le_u32, |x| *x == MAGIC_HEADER): de.rs:175
verify_magic(buf, r) ==
    IF Failed(r) THEN r
    ELSE IF r.val # MAGIC_HEADER THEN IError(buf, "Verify")
    ELSE r

\* tuple((le_u8, le_u8, le_u16)): de.rs:179
tuple_class(response_code, ignored, c) ==
    IF Failed(c) THEN c ELSE IOk(c.rest, <<response_code, ignored, c.val>>)

tuple_ignored(response_code, b) ==
    IF Failed(b) THEN b ELSE tuple_class(response_code, b.val, le_u16(b.rest))

tuple_response_code(a) ==
    IF Failed(a) THEN a ELSE tuple_ignored(a.val, le_u8(a.rest))

tuple_u8_u8_u16(i) == tuple_response_code(le_u8(i))

\* cond(has_payload_offset(class), le_u32): de.rs:186
cond_some(r) == IF Failed(r) THEN r ELSE IOk(r.rest, Some(r.val))

\* cond_le_u32 reading payload_offset whatever the class
cond_le_u32_always(b, i) == cond_some(le_u32(i))

cond_le_u32(b, i) == IF b THEN cond_some(le_u32(i)) ELSE IOk(i, None)

\* de.rs:184, 188-198
header_build(msg_id, body_len, enc_offset, response_code, class, r) ==
    IF Failed(r) THEN r
    ELSE IOk(r.rest,
             [msg_id         |-> msg_id,
              body_len       |-> body_len,
              enc_offset     |-> enc_offset,
              encrypted      |-> response_code # 0,
              class          |-> class,
              payload_offset |-> r.val])

\* de.rs:179, 186
header_class(msg_id, body_len, enc_offset, t) ==
    IF Failed(t) THEN t
    ELSE header_build(msg_id, body_len, enc_offset, t.val[1], t.val[3],
                      cond_le_u32(has_payload_offset(t.val[3]), t.rest))

\* de.rs:178
header_enc_offset(msg_id, body_len, r) ==
    IF Failed(r) THEN r
    ELSE header_class(msg_id, body_len, r.val, tuple_u8_u8_u16(r.rest))

\* de.rs:177
header_body_len(msg_id, r) ==
    IF Failed(r) THEN r ELSE header_enc_offset(msg_id, r.val, le_u32(r.rest))

\* de.rs:176
header_msg_id(r) ==
    IF Failed(r) THEN r ELSE header_body_len(r.val, le_u32(r.rest))

\* de.rs:175
header_magic(r) ==
    IF Failed(r) THEN r ELSE header_msg_id(le_u32(r.rest))

\* bc_header: de.rs:174-199
bc_header(buf) == header_magic(verify_magic(buf, le_u32(buf)))

\* hex32_map taking the 32 bytes as text without validating them
hex32_map_unchecked(buf, r) == r

\* map_res(take(32usize), String::from_utf8): de.rs:96-100
hex32_map(buf, r) ==
    IF Failed(r) THEN r
    ELSE IF from_utf8_ok(r.val) THEN r
    ELSE IError(buf, "MapRes")

hex32(buf) == hex32_map(buf, take(U32(32), buf))

\* de.rs:104-106
login_password(username, p) ==
    IF Failed(p) THEN p
    ELSE IOk(p.rest, [tag |-> "LoginMsg", username |-> username, password |-> p.val])

\* de.rs:103
login_username(u) ==
    IF Failed(u) THEN u ELSE login_password(u.val, hex32(u.rest))

\* bc_legacy_login_msg: de.rs:102-107
bc_legacy_login_msg(buf) == login_username(hex32(buf))

UnknownMsg == [tag |-> "UnknownMsg", username |-> <<>>, password |-> <<>>]

-----------------------------------------------------------------------------
(* bc_modern_msg: de.rs:109-172.  The `context` argument is never read.     *)

\* de.rs:119-122, the length L of the xml segment
xml_len_of(header) ==
    IF header.payload_offset.some THEN header.payload_offset.v
    ELSE header.body_len

\* payload_len_of taking the whole declared body as the payload length
payload_len_whole(header, xml_len) == [panic |-> FALSE, v |-> header.body_len]

\* de.rs:125, `header.body_len - xml_len` on u32: with overflow checks the
\* subtraction panics when body_len < xml_len, without them it wraps
payload_len_of(header, xml_len) ==
    IF U32Lt(header.body_len, xml_len) /\ overflow_checks
    THEN [panic |-> TRUE, v |-> U32Zero]
    ELSE [panic |-> FALSE, v |-> wrapping_sub(header.body_len, xml_len)]

\* de.rs:129-134
processed_xml_buf(header, xml_buf) ==
    IF ~is_encrypted(header) THEN xml_buf
    ELSE crypt(header.enc_offset, xml_buf)

\* de.rs:156-161: the unencrypted branch takes xml_buf
processed_payload_buf(header, xml_buf, payload_buf) ==
    IF ~is_encrypted(header) THEN xml_buf
    ELSE crypt(header.enc_offset, payload_buf)

\* binary_content taking the decrypted bytes
binary_content_decrypted(header, xml_buf, payload_buf) ==
    crypt(header.enc_offset, payload_buf)

\* de.rs:165: the content of BcPayloads::Binary
binary_content(header, xml_buf, payload_buf) == payload_buf

NoPayload == [tag |-> "None", data |-> <<>>]

\* de.rs:162-166
payload_classify(header, xml_buf, payload_buf, p) ==
    IF p.ok THEN [tag |-> "BcXml", data |-> p.doc]
    ELSE [tag |-> "Binary", data |-> binary_content(header, xml_buf, payload_buf)]

\* payload_of classifying an empty payload segment as well
payload_of_always(header, xml_buf, payload_buf, payload_len) ==
    payload_classify(header, xml_buf, payload_buf,
        BcXml_try_parse(processed_payload_buf(header, xml_buf, payload_buf)))

\* de.rs:152-169
payload_of(header, xml_buf, payload_buf, payload_len) ==
    IF payload_len # U32Zero
    THEN payload_classify(header, xml_buf, payload_buf,
            BcXml_try_parse(processed_payload_buf(header, xml_buf, payload_buf)))
    ELSE NoPayload

\* modern_build treating an xml segment that does not parse as absent
modern_build_lenient(header, xml_len, xml_buf, payload_len, payload_buf, rest, parsed) ==
    IOk(rest,
        [xml     |-> IF xml_len # U32Zero /\ parsed.ok THEN Some(parsed.doc) ELSE None,
         payload |-> payload_of(header, xml_buf, payload_buf, payload_len)])

\* de.rs:137-146, 171
modern_build(header, xml_len, xml_buf, payload_len, payload_buf, rest, parsed) ==
    IF xml_len # U32Zero /\ ~parsed.ok THEN IError(rest, "MapRes")
    ELSE IOk(rest,
             [xml     |-> IF xml_len # U32Zero THEN Some(parsed.doc) ELSE None,
              payload |-> payload_of(header, xml_buf, payload_buf, payload_len)])

\* de.rs:126-134
modern_payload(header, xml_len, xml_buf, payload_len, r2) ==
    IF Failed(r2) THEN r2
    ELSE modern_build(header, xml_len, xml_buf, payload_len, r2.val, r2.rest,
                      BcXmls_try_parse(processed_xml_buf(header, xml_buf)))

\* de.rs:125-126
modern_sub(header, xml_len, r1, sub) ==
    IF sub.panic THEN IPanic
    ELSE modern_payload(header, xml_len, r1.val, sub.v, take(sub.v, r1.rest))

\* de.rs:124-125
modern_xml(header, xml_len, r1) ==
    IF Failed(r1) THEN r1
    ELSE modern_sub(header, xml_len, r1, payload_len_of(header, xml_len))

\* de.rs:124: `xml_buf`, the segment taken first
xml_buf_of(header, buf) == take(xml_len_of(header), buf)

\* de.rs:126: `payload_buf`, the segment taken from what follows xml_buf
payload_buf_of(header, buf) ==
    take(payload_len_of(header, xml_len_of(header)).v, xml_buf_of(header, buf).rest)

modern_split(header, xml_len, buf) == modern_xml(header, xml_len, take(xml_len, buf))

bc_modern_msg(header, buf) == modern_split(header, xml_len_of(header), buf)

\* de.rs:86, 92
body_wrap(tag, r) ==
    IF Failed(r) THEN r ELSE IOk(r.rest, [tag |-> tag, msg |-> r.val])

\* legacy_dispatch taking the body_len bytes of an unknown message
legacy_dispatch_take(header, buf) ==
    IF header.msg_id = MSG_ID_LOGIN THEN bc_legacy_login_msg(buf)
    ELSE IF GtLen(header.body_len, Len(buf)) THEN IIncomplete(header.body_len)
    ELSE IOk(Drop(buf, header.body_len.lo), UnknownMsg)

\* de.rs:88-91
legacy_dispatch(header, buf) ==
    IF header.msg_id = MSG_ID_LOGIN THEN bc_legacy_login_msg(buf)
    ELSE IOk(buf, UnknownMsg)

\* bc_body: de.rs:79-94
bc_body(header, buf) ==
    IF is_modern(header) THEN body_wrap("ModernMsg", bc_modern_msg(header, buf))
    ELSE body_wrap("LegacyMsg", legacy_dispatch(header, buf))

\* de.rs:71-76
msg_build(header, b) ==
    IF Failed(b) THEN b
    ELSE IOk(b.rest, [meta |-> to_meta(header), body |-> b.val])

\* de.rs:68-69
msg_header(h) ==
    IF Failed(h) THEN h ELSE msg_build(h.val, bc_body(h.val, h.rest))

\* bc_msg: de.rs:67-77
bc_msg(buf) == msg_header(bc_header(buf))

-----------------------------------------------------------------------------
(* The byte streams explored *)

LE32(u) == <<u.lo % 256, u.lo \div 256, u.hi % 256, u.hi \div 256>>

LE16(n) == <<n % 256, n \div 256>>

\* the wire header of §6: 20 bytes, 24 with payload_offset
HeaderBytes(magic, msg_id, body_len, enc_offset, response_code, class, payload_offset) ==
    magic \o LE32(msg_id) \o LE32(body_len) \o LE32(enc_offset)
          \o <<response_code, 0>> \o LE16(class)
          \o (IF payload_offset.some THEN LE32(payload_offset.v) ELSE <<>>)

\* plaintexts of the xml segment
XmlSegs == UNION {[1..n -> {TAG_BODY, TAG_EXTENSION, TAG_CLOSE}] : n \in 0..MaxSegLen}

\* plaintexts of the payload segment
PayloadSegs == UNION {[1..n -> {TAG_BODY, TAG_CLOSE}] : n \in 0..MaxSegLen}

\* 0x01000003: the offset of the login samples, plus 3
EncOffsets == {[hi |-> 256, lo |-> 3]}

ResponseCodes == {0, 1}

\* what the peer puts on the wire for a plaintext segment
Wire(response_code, enc_offset, seg) ==
    IF response_code # 0 THEN crypt(enc_offset, seg) ELSE seg

Trailers == {Prefix(LE32(MAGIC_HEADER), n) : n \in 0..MaxTrailer}

\* modern messages of the 20-byte classes: the body is the xml segment
ModernStreams20 ==
    {HeaderBytes(LE32(MAGIC_HEADER), U32(3), U32(Len(x)), e, rc, CLASS_MODERN_20, None)
        \o Wire(rc, e, x) \o t :
        x \in XmlSegs, e \in EncOffsets, rc \in ResponseCodes, t \in Trailers}

\* declared body_len for segments x, p: their total length or, with no
\* payload, anything below payload_offset
BodyLens(x, p) ==
    {Len(x) + Len(p)} \cup (IF p = <<>> THEN 0..(Len(x) - 1) ELSE {})

\* the 24-byte classes: class 0x0000 is sent with payload_offset = 0 (the
\* modern_login_success sample), class 0x6414 with any payload_offset
Classes24(x) ==
    IF x = <<>> THEN {CLASS_MODERN_24, CLASS_MODERN_24_ALT} ELSE {CLASS_MODERN_24}

\* modern messages of the 24-byte classes: xml segment, then payload segment
ModernStreams24 ==
    UNION {
      {HeaderBytes(LE32(MAGIC_HEADER), U32(3), U32(bl), e, rc, c, Some(U32(Len(x))))
          \o Wire(rc, e, x) \o Wire(rc, e, p) \o t :
          bl \in BodyLens(x, p), c \in Classes24(x), e \in EncOffsets,
          rc \in ResponseCodes, t \in Trailers} :
      x \in XmlSegs, p \in PayloadSegs}

\* 32-byte legacy fields: ASCII with NUL padding, a two-byte character, and
\* one that is not UTF-8
LegacyFields ==
    {[i \in 1..32 |-> IF i = 32 THEN 0 ELSE 65],
     [i \in 1..32 |-> IF i = 1 THEN 195 ELSE IF i = 2 THEN 169 ELSE 0],
     [i \in 1..32 |-> IF i = 7 THEN 255 ELSE 65]}

\* body_len declared by a legacy header followed by 64 + n bytes: all of
\* them, or none (the bytes that follow are then the next message's)
LegacyBodyLens(n) == {0, 64 + n}

LegacyStreams ==
    UNION {
      {HeaderBytes(LE32(MAGIC_HEADER), U32(id), U32(bl), U32Zero, 1, CLASS_LEGACY, None)
          \o u \o p \o t :
          id \in {1, 2}, bl \in LegacyBodyLens(Len(t)), u \in LegacyFields,
          p \in LegacyFields} :
      t \in Trailers}

\* four bytes that are not the magic: first byte wrong, last byte wrong
BadMagics == {<<241, 222, 188, 10>>, <<240, 222, 188, 11>>}

BadMagicStreams ==
    {HeaderBytes(m, U32(3), U32(Len(x)), U32Zero, 0, CLASS_MODERN_20, None) \o x :
        m \in BadMagics, x \in PayloadSegs}

FullStreams == ModernStreams20 \cup ModernStreams24 \cup LegacyStreams \cup BadMagicStreams

\* every buffer a caller may hold: the prefixes of the streams
Buffers == UNION {{Prefix(s, n) : n \in 0..Len(s)} : s \in FullStreams}

-----------------------------------------------------------------------------
(* Results of read_from_reader: Result<Bc, Error>, de.rs:10-16 *)

NoResult == [kind |-> "None", val |-> NoVal, reason |-> "-"]

ROk(parsed) == [kind |-> "Ok", val |-> parsed, reason |-> "-"]

\* From<nom::Err>: de.rs:20-29
nom_reason(r) == IF r.kind = "Error" THEN "Nom Error" ELSE "Unknown Nom error"

RNomError(reason) == [kind |-> "NomError", val |-> NoVal, reason |-> reason]

RIoError(reason) == [kind |-> "IoError", val |-> NoVal, reason |-> reason]

\* the call did not return: the panic unwinds through it
RPanic == [kind |-> "Panic", val |-> NoVal, reason |-> "-"]

\* BcContext (bc/model.rs): opaque to de.rs, which hands it from
\* Bc::deserialize down to bc_modern_msg and neither reads nor writes it.
\* BcContext::new() and a context a session has worked on
NewContext == "new"

Contexts == {NewContext, "keyed"}

\* no call has ended yet
NoFirst == [result |-> NoResult, context |-> "-"]

-----------------------------------------------------------------------------
(* read_from_reader: de.rs:38-65 *)

Init ==
    /\ overflow_checks \in BOOLEAN
    /\ rdr \in FullStreams
    /\ input = <<>>
    /\ pc = "parse"
    /\ to_read = U32Zero
    /\ limit = U32Zero
    /\ got = 0
    /\ eof_seen = FALSE
    /\ last_read = "none"
    /\ hout = INone
    /\ out = INone
    /\ result = NoResult
    /\ context = NewContext
    /\ call = 1
    /\ first = NoFirst

\* de.rs:46-47: the parser completes, the call returns the message
ParseComplete ==
    /\ pc = "parse"
    /\ out' = bc_msg(input)
    /\ out'.kind = "Ok"
    /\ hout' = bc_header(input)
    /\ result' = ROk(out'.val)
    /\ pc' = "done"
    /\ UNCHANGED <<session, overflow_checks, rdr, input, to_read, limit, got, eof_seen, last_read>>

\* de.rs:48-53, 57: Incomplete(Size(len)) sets to_read and starts
\* take(to_read).read_to_end(&mut input)
ParseIncomplete ==
    /\ pc = "parse"
    /\ out' = bc_msg(input)
    /\ out'.kind = "Incomplete"
    /\ hout' = bc_header(input)
    /\ to_read' = out'.needed
    /\ limit' = out'.needed
    /\ got' = 0
    /\ last_read' = "none"
    /\ pc' = "read"
    /\ UNCHANGED <<session, overflow_checks, rdr, input, eof_seen, result>>

\* ParseError that asks the source for one more byte and parses again
ParseError_retry ==
    /\ pc = "parse"
    /\ out' = bc_msg(input)
    /\ out'.kind = "Error"
    /\ hout' = bc_header(input)
    /\ to_read' = U32(1)
    /\ limit' = U32(1)
    /\ got' = 0
    /\ last_read' = "none"
    /\ pc' = "read"
    /\ UNCHANGED <<session, overflow_checks, rdr, input, eof_seen, result>>

\* de.rs:54: any other Err is converted and returned
ParseError ==
    /\ pc = "parse"
    /\ out' = bc_msg(input)
    /\ out'.kind = "Error"
    /\ hout' = bc_header(input)
    /\ result' = RNomError(nom_reason(out'))
    /\ pc' = "done"
    /\ UNCHANGED <<session, overflow_checks, rdr, input, to_read, limit, got, eof_seen, last_read>>

\* de.rs:125 under overflow checks: the parser panics, the call unwinds
ParsePanic ==
    /\ pc = "parse"
    /\ out' = bc_msg(input)
    /\ out'.kind = "Panic"
    /\ hout' = bc_header(input)
    /\ result' = RPanic
    /\ pc' = "done"
    /\ UNCHANGED <<session, overflow_checks, rdr, input, to_read, limit, got, eof_seen, last_read>>

\* the chunks a source delivers when up to m bytes can be had: all of them,
\* or half of them
Chunks(m) == {m, (m + 1) \div 2}

\* SourceRead as a single read call: whatever arrives, the parser runs next
SourceRead_single ==
    /\ pc = "read"
    /\ rdr # <<>>
    /\ \E k \in Chunks(MinLen(limit, Len(rdr))) :
         /\ input' = input \o Prefix(rdr, k)
         /\ rdr' = Drop(rdr, k)
         /\ limit' = SubSmall(limit, k)
         /\ got' = got + k
         /\ pc' = "parse"
    /\ last_read' = "bytes"
    /\ UNCHANGED <<session, overflow_checks, to_read, eof_seen, hout, out, result>>

\* de.rs:57: one read call of read_to_end on the source, through Take: the
\* source delivers k >= 1 of the at most `limit` bytes asked for; when the
\* limit is used up read_to_end returns and the loop re-runs the parser
SourceRead ==
    /\ pc = "read"
    /\ rdr # <<>>
    /\ \E k \in Chunks(MinLen(limit, Len(rdr))) :
         /\ input' = input \o Prefix(rdr, k)
         /\ rdr' = Drop(rdr, k)
         /\ limit' = SubSmall(limit, k)
         /\ got' = got + k
         /\ pc' = IF SubSmall(limit, k) = U32Zero THEN "parse" ELSE "read"
    /\ last_read' = "bytes"
    /\ UNCHANGED <<session, overflow_checks, to_read, eof_seen, hout, out, result>>

\* SourceEof without the test of line 57: the loop goes on
SourceEof_unchecked ==
    /\ pc = "read"
    /\ rdr' = <<>>
    /\ eof_seen' = TRUE
    /\ last_read' = "eof"
    /\ pc' = "parse"
    /\ UNCHANGED <<session, overflow_checks, input, to_read, limit, got, hout, out, result>>

\* de.rs:57-63: the source returns 0 bytes (the stream has ended); read_to_end
\* returns the bytes it appended, and 0 makes the call fail with UnexpectedEof
SourceEof ==
    /\ pc = "read"
    /\ rdr' = <<>>
    /\ eof_seen' = TRUE
    /\ last_read' = "eof"
    /\ IF got = 0
       THEN /\ result' = RIoError("UnexpectedEof")
            /\ pc' = "done"
       ELSE /\ result' = result
            /\ pc' = "parse"
    /\ UNCHANGED <<session, overflow_checks, input, to_read, limit, got, hout, out>>

\* de.rs:57, the `?`: a read call fails, the error is returned as IoError
SourceError ==
    /\ pc = "read"
    /\ last_read' = "error"
    /\ result' = RIoError("Other")
    /\ pc' = "done"
    /\ UNCHANGED <<session, overflow_checks, rdr, input, to_read, limit, got, eof_seen, hout, out>>

Next ==
    \/ ParseComplete
    \/ ParseIncomplete
    \/ ParseError
    \/ ParsePanic
    \/ SourceRead
    \/ SourceEof
    \/ SourceError

Spec == Init /\ [][Next]_vars

-----------------------------------------------------------------------------
(* The parsers applied to a buffer, as the tests of de.rs:201-321 do *)

InitParse ==
    /\ overflow_checks \in BOOLEAN
    /\ input \in Buffers
    /\ rdr = <<>>
    /\ pc = "test"
    /\ to_read = U32Zero
    /\ limit = U32Zero
    /\ got = 0
    /\ eof_seen = FALSE
    /\ last_read = "none"
    /\ hout = INone
    /\ out = INone
    /\ result = NoResult
    /\ context = NewContext
    /\ call = 1
    /\ first = NoFirst

\* bc_header(&sample[..])
TestHeader ==
    /\ pc = "test"
    /\ hout' = bc_header(input)
    /\ pc' = "header_done"
    /\ UNCHANGED <<session, overflow_checks, rdr, input, to_read, limit, got, eof_seen, last_read,
                   out, result>>

\* bc_msg on the same buffer: header, then body
TestMsg ==
    /\ pc = "header_done"
    /\ out' = bc_msg(input)
    /\ pc' = "msg_done"
    /\ UNCHANGED <<session, overflow_checks, rdr, input, to_read, limit, got, eof_seen, last_read,
                   hout, result>>

NextParse ==
    \/ TestHeader
    \/ TestMsg

SpecParse == InitParse /\ [][NextParse]_vars

-----------------------------------------------------------------------------
(* Bc::deserialize called twice on the same bytes, as test_bc_binary_mode    *)
(* calls it on byte slices with one BcContext: de.rs:31-36, 302-309         *)

\* the byte sequences decoded twice: a stream, or a stream cut one byte short
TwiceStreams == FullStreams \cup {Prefix(s, Len(s) - 1) : s \in FullStreams}

InitTwice ==
    /\ overflow_checks \in BOOLEAN
    /\ rdr \in TwiceStreams
    /\ input = <<>>
    /\ pc = "parse"
    /\ to_read = U32Zero
    /\ limit = U32Zero
    /\ got = 0
    /\ eof_seen = FALSE
    /\ last_read = "none"
    /\ hout = INone
    /\ out = INone
    /\ result = NoResult
    /\ context = NewContext
    /\ call = 1
    /\ first = NoFirst

\* a byte slice as the source: read returns 0 at the end of the slice only
SliceEof == rdr = <<>> /\ SourceEof

\* SecondCall that goes on with the accumulation buffer of the first call
SecondCall_stale_buffer ==
    /\ pc = "done"
    /\ call = 1
    /\ first' = [result |-> result, context |-> context]
    /\ call' = 2
    /\ context' \in Contexts
    /\ rdr' = input \o rdr
    /\ input' = input
    /\ pc' = "parse"
    /\ to_read' = U32Zero
    /\ limit' = U32Zero
    /\ got' = 0
    /\ eof_seen' = FALSE
    /\ last_read' = "none"
    /\ hout' = INone
    /\ out' = INone
    /\ result' = NoResult
    /\ UNCHANGED overflow_checks

\* the caller decodes the same bytes again: a new source over the same
\* bytes, the same BcContext in whatever state the session has left it, and
\* `input` created anew by the call (de.rs:44)
SecondCall ==
    /\ pc = "done"
    /\ call = 1
    /\ first' = [result |-> result, context |-> context]
    /\ call' = 2
    /\ context' \in Contexts
    /\ rdr' = input \o rdr
    /\ input' = <<>>
    /\ pc' = "parse"
    /\ to_read' = U32Zero
    /\ limit' = U32Zero
    /\ got' = 0
    /\ eof_seen' = FALSE
    /\ last_read' = "none"
    /\ hout' = INone
    /\ out' = INone
    /\ result' = NoResult
    /\ UNCHANGED overflow_checks

NextTwice ==
    \/ ParseComplete
    \/ ParseIncomplete
    \/ ParseError
    \/ ParsePanic
    \/ SourceRead
    \/ SliceEof
    \/ SecondCall

SpecTwice == InitTwice /\ [][NextTwice]_vars

-----------------------------------------------------------------------------
(* Vocabulary of the claims, read off the buffer and the header *)

\* bc_msg has been applied to the buffer `input`
Parsed == pc = "msg_done"

\* bc_header has been applied to the buffer `input`
HeaderParsed == pc \in {"header_done", "msg_done"}

\* the buffer starts with a well-formed header of a modern message
ModernHeader == hout.kind = "Ok" /\ hout.val.class # CLASS_LEGACY

\* L: payload_offset if present, else body_len
ClaimL ==
    IF hout.val.payload_offset.some THEN hout.val.payload_offset.v
    ELSE hout.val.body_len

Underflow == U32Lt(hout.val.body_len, ClaimL)

\* the buffer holds the body_len bytes of the body (body_len >= L)
CompleteBody == ~Underflow /\ ~GtLen(hout.val.body_len, Len(hout.rest))

\* the xml segment and the payload segment as they stand in the buffer
XmlSegment == Prefix(hout.rest, ClaimL.lo)

PayloadSegment == SubSeq(hout.rest, ClaimL.lo + 1, hout.val.body_len.lo)

Decrypted(seg) ==
    IF hout.val.encrypted THEN crypt(hout.val.enc_offset, seg) ELSE seg

\* a modern message was decoded and its payload length is > 0
DecodedWithPayload ==
    /\ Parsed /\ ModernHeader /\ out.kind = "Ok"
    /\ U32Lt(ClaimL, hout.val.body_len)

Payload == out.val.body.msg.payload

-----------------------------------------------------------------------------
(* C1 *)

\* the L bytes of the xml segment are in the buffer, so that the parser
\* reaches the subtraction body_len - L
XmlSegmentPresent == ~GtLen(ClaimL, Len(hout.rest))

\* C1: whenever body_len < L, decoding a modern message ends in a hard
\* Error: not a panic, not a wrapped length, not Incomplete, not a Message
\* (stated where the length is computed: the xml segment is in the buffer).
C1_UnderflowIsError ==
    (Parsed /\ ModernHeader /\ Underflow /\ XmlSegmentPresent) => out.kind = "Error"

-----------------------------------------------------------------------------
(* C2 *)

\* C2: with payload length > 0, the bytes tried as XML are the payload
\* segment's (decrypted when the header is encrypted), never the xml
\* segment's: the payload is XmlPayload exactly when those bytes parse.
C2_PayloadClassifiedFromPayload ==
    DecodedWithPayload =>
        /\ (Payload.tag = "BcXml") = BcXml_try_parse(Decrypted(PayloadSegment)).ok
        /\ Payload.tag = "BcXml" => Payload.data = Decrypted(PayloadSegment)

-----------------------------------------------------------------------------
(* C3 *)

\* C3 as claimed: a BinaryPayload holds the post-decryption payload bytes:
\* decrypt(enc_offset, payload_buf) for an encrypted header, payload_buf for
\* an unencrypted one.
C3_BinaryIsDecrypted ==
    (DecodedWithPayload /\ Payload.tag = "Binary") =>
        Payload.data = Decrypted(PayloadSegment)

\* C3 amended: a BinaryPayload holds payload_buf, the payload segment as it
\* stands on the wire, whether or not the header is encrypted.
C3_BinaryIsWireBytes ==
    (DecodedWithPayload /\ Payload.tag = "Binary") =>
        Payload.data = PayloadSegment

\* an encrypted header whose payload became a BinaryPayload of wire bytes
\* that differ from their decryption
C3_Witness ==
    /\ DecodedWithPayload
    /\ hout.val.encrypted
    /\ Payload.tag = "Binary"
    /\ Payload.data = PayloadSegment
    /\ PayloadSegment # crypt(hout.val.enc_offset, PayloadSegment)

-----------------------------------------------------------------------------
(* C4 *)

\* C4: a payload region of N > 0 non-XML bytes, in a complete buffer whose
\* xml region is empty or valid, decodes to a BinaryPayload of length N.
C4_RawPayloadIsBinary ==
    ( /\ Parsed /\ ModernHeader /\ CompleteBody
      /\ U32Lt(ClaimL, hout.val.body_len)
      /\ ~BcXml_try_parse(PayloadSegment).ok
      /\ ~BcXml_try_parse(Decrypted(PayloadSegment)).ok
      /\ (ClaimL = U32Zero \/ BcXmls_try_parse(Decrypted(XmlSegment)).ok) )
    => /\ out.kind = "Ok"
       /\ Payload.tag = "Binary"
       /\ Len(Payload.data) = hout.val.body_len.lo - ClaimL.lo

-----------------------------------------------------------------------------
(* C5 *)

\* C5: payload_offset == 0 with body_len > 0 decodes to xml = Some(_) and no
\* payload.
C5_ZeroOffsetIsXml ==
    ( /\ Parsed /\ ModernHeader /\ out.kind = "Ok"
      /\ hout.val.payload_offset = Some(U32Zero)
      /\ hout.val.body_len # U32Zero )
    => /\ out.val.body.msg.xml.some
       /\ Payload.tag = "None"

-----------------------------------------------------------------------------
(* C6 *)

\* the buffer holds at least 4 bytes and they are not the magic
BadMagic == Len(input) >= 4 /\ Prefix(input, 4) # LE32(MAGIC_HEADER)

\* C6: a buffer of >= 4 bytes whose first 4 bytes differ from the magic
\* makes the header parse and the message parse a hard Error, never
\* Incomplete, whatever follows and however short the buffer.
C6_BadMagicIsError ==
    BadMagic =>
        /\ HeaderParsed => hout.kind = "Error"
        /\ Parsed => out.kind = "Error"

\* a buffer shorter than a header, with a wrong magic, was refused
C6_Witness ==
    /\ BadMagic /\ Len(input) < 20
    /\ Parsed /\ hout.kind = "Error" /\ out.kind = "Error"

-----------------------------------------------------------------------------
(* C7 *)

MinHeader == 4 + 4 + 4 + 4 + 1 + 1 + 2

\* width of the header field that holds offset n of the header:
\* magic, msg_id, body_len, enc_offset (4 each), response_code, reserved
\* (1 each), class (2)
FieldWidthAt(n) == IF n < 16 THEN 4 ELSE IF n < 18 THEN 1 ELSE 2

\* first offset after the header field that holds offset n
FieldEndAt(n) ==
    IF n < 16 THEN 4 * (n \div 4) + 4 ELSE IF n < 18 THEN n + 1 ELSE 20

\* C7 as claimed: a buffer shorter than 20 bytes yields Incomplete and the
\* count is the exact number of bytes missing (up to the end of the header,
\* or up to the end of the field the buffer stops in).
C7_ShortIsIncompleteExact ==
    (HeaderParsed /\ Len(input) < MinHeader) =>
        /\ hout.kind = "Incomplete"
        /\ \/ hout.needed = U32(MinHeader - Len(input))
           \/ hout.needed = U32(FieldEndAt(Len(input)) - Len(input))

\* C7 amended: a buffer shorter than 20 bytes never yields a Header; it
\* yields Error when it holds 4 bytes that are not the magic, and otherwise
\* Incomplete with the full width of the field the buffer stops in.
C7_ShortIsIncompleteFieldWidth ==
    (HeaderParsed /\ Len(input) < MinHeader) =>
        IF BadMagic THEN hout.kind = "Error"
        ELSE /\ hout.kind = "Incomplete"
             /\ hout.needed = U32(FieldWidthAt(Len(input)))

\* a buffer that stops inside the class field: 1 byte is missing, 2 are asked
C7_Witness ==
    /\ HeaderParsed /\ Len(input) = 19
    /\ hout.kind = "Incomplete" /\ hout.needed = U32(2)

-----------------------------------------------------------------------------
(* C8 *)

\* C8: once a parse of the accumulation buffer yields a hard Error the call
\* returns that error at once: the source is not read and the parser is not
\* run again in that call.
C8_ErrorReturnsAtOnce ==
    /\ [](result.kind = "NomError" => (pc = "done" /\ out.kind = "Error"))
    /\ [][(pc = "parse" /\ out'.kind = "Error")
             => /\ pc' = "done"
                /\ result' = RNomError("Nom Error")
                /\ rdr' = rdr
                /\ input' = input]_vars
    /\ [][pc = "done" => pc' = "done"]_vars

\* the call ended on a parse error with bytes buffered and bytes left unread
\* in the source
C8_Witness ==
    /\ pc = "done" /\ result.kind = "NomError"
    /\ input # <<>> /\ rdr # <<>>

-----------------------------------------------------------------------------
(* C9 *)

\* C9 as claimed: each Incomplete(n) is followed by exactly one read request
\* to the source; no second request is issued before the re-parse (so no
\* request is pending once bytes have been appended).
C9_OneReadPerIncomplete == pc = "read" => got = 0

\* C9 amended: after Incomplete(n) the driver keeps asking the source, each
\* time for the bytes of n still outstanding, and re-runs the parser only
\* when n bytes have been appended or the source has returned 0 bytes after
\* at least one byte; the bytes are appended to the buffer that was parsed.
C9_ReadUntilSatisfied ==
    /\ [](pc = "read" =>
            /\ out.kind = "Incomplete"
            /\ to_read = out.needed
            /\ limit # U32Zero
            /\ limit = SubSmall(to_read, got)
            /\ got <= Len(input)
            /\ bc_msg(Prefix(input, Len(input) - got)) = out)
    /\ [][(pc = "read" /\ pc' = "parse")
             => /\ got' > 0
                /\ limit' = U32Zero \/ last_read' = "eof"]_vars
    /\ [][(pc = "read" /\ last_read' = "bytes")
             => /\ Len(input') > Len(input)
                /\ ~U32Lt(limit, U32(Len(input') - Len(input)))
                /\ input' \o rdr' = input \o rdr]_vars

\* a request for n bytes that the source answered in part: bytes have been
\* appended and a further read call is due before the parser runs
C9_Witness == pc = "read" /\ got > 0 /\ last_read = "bytes"

-----------------------------------------------------------------------------
(* C10 *)

-----------------------------------------------------------------------------
(* C11 *)

\* C11: a modern message with L > 0 whose body is wholly in the buffer and
\* whose xml region, after decryption, is not an XML document decodes to a
\* hard Error: not Incomplete, not a Message with xml = None or with the
\* region turned into a binary payload.
C11_BadXmlIsError ==
    ( /\ Parsed /\ ModernHeader /\ CompleteBody
      /\ ClaimL # U32Zero
      /\ ~BcXmls_try_parse(Decrypted(XmlSegment)).ok )
    => /\ out.kind = "Error"
       /\ out.code = "MapRes"

\* an encrypted message with a payload segment behind an xml region that does
\* not parse was refused
C11_Witness ==
    /\ Parsed /\ ModernHeader /\ CompleteBody
    /\ hout.val.encrypted
    /\ ClaimL # U32Zero /\ U32Lt(ClaimL, hout.val.body_len)
    /\ ~BcXmls_try_parse(Decrypted(XmlSegment)).ok
    /\ out.kind = "Error"

-----------------------------------------------------------------------------
(* C12 *)

-----------------------------------------------------------------------------
(* C13 *)

\* the buffer starts with a well-formed header of a legacy message
LegacyHeader == hout.kind = "Ok" /\ ~is_modern(hout.val)

\* C13: behind a legacy header every msg_id other than the login id decodes
\* to LegacyMsg::UnknownMsg, never to an Error or Incomplete, whatever body
\* bytes the buffer holds and whatever body_len says.
C13_UnknownLegacyIsUnknownMsg ==
    (Parsed /\ LegacyHeader /\ hout.val.msg_id # MSG_ID_LOGIN) =>
        /\ out.kind = "Ok"
        /\ out.val.body = [tag |-> "LegacyMsg", msg |-> UnknownMsg]

\* an unknown legacy message was decoded from its header alone although the
\* header declares a body
C13_Witness ==
    /\ Parsed /\ LegacyHeader /\ hout.val.msg_id # MSG_ID_LOGIN
    /\ hout.val.body_len # U32Zero /\ hout.rest = <<>>
    /\ out.kind = "Ok" /\ out.val.body.msg = UnknownMsg

-----------------------------------------------------------------------------
(* C14 *)

LegacyLogin == LegacyHeader /\ hout.val.msg_id = MSG_ID_LOGIN

\* body bytes 0..32 and 32..64, as far as the buffer holds them
UsernameField == SubSeq(hout.rest, 1, 32)

PasswordField == SubSeq(hout.rest, 33, 64)

UsernamePresent == Len(hout.rest) >= 32

PasswordPresent == Len(hout.rest) >= 64

\* C14 as claimed: the legacy login decoder never yields Incomplete; a
\* 32-byte field that is not valid text makes it a hard Error; two valid
\* fields are returned verbatim.
C14_LoginNeverIncomplete ==
    (Parsed /\ LegacyLogin) =>
        /\ out.kind # "Incomplete"
        /\ ( \/ (UsernamePresent /\ ~from_utf8_ok(UsernameField))
             \/ (PasswordPresent /\ ~from_utf8_ok(PasswordField)) )
           => out.kind = "Error"
        /\ ( /\ PasswordPresent
             /\ from_utf8_ok(UsernameField) /\ from_utf8_ok(PasswordField) )
           => /\ out.kind = "Ok"
              /\ out.val.body.msg.username = UsernameField
              /\ out.val.body.msg.password = PasswordField

\* C14 amended: the legacy login decoder yields Incomplete(32) when the
\* buffer holds fewer than 32 bytes of the field it is at; a field whose 32
\* bytes are buffered and are not valid UTF-8 makes it a hard Error, the
\* username being examined before the password is asked for; two valid
\* fields are returned verbatim and exactly 64 bytes are consumed.
C14_LoginFields ==
    (Parsed /\ LegacyLogin) =>
        IF ~UsernamePresent
        THEN out.kind = "Incomplete" /\ out.needed = U32(32)
        ELSE IF ~from_utf8_ok(UsernameField)
        THEN out.kind = "Error" /\ out.code = "MapRes"
        ELSE IF ~PasswordPresent
        THEN out.kind = "Incomplete" /\ out.needed = U32(32)
        ELSE IF ~from_utf8_ok(PasswordField)
        THEN out.kind = "Error" /\ out.code = "MapRes"
        ELSE /\ out.kind = "Ok"
             /\ out.val.body.msg.tag = "LoginMsg"
             /\ out.val.body.msg.username = UsernameField
             /\ out.val.body.msg.password = PasswordField
             /\ out.rest = Drop(hout.rest, 64)

\* the username, NUL padding included, is buffered and valid, the password
\* is buffered in part: the decoder asks for 32 bytes
C14_Witness ==
    /\ Parsed /\ LegacyLogin
    /\ UsernamePresent /\ from_utf8_ok(UsernameField) /\ UsernameField[32] = 0
    /\ Len(hout.rest) > 32 /\ ~PasswordPresent
    /\ out.kind = "Incomplete" /\ out.needed = U32(32)

-----------------------------------------------------------------------------
(* C15 *)

\* C15: the second of two Bc::deserialize calls on the same byte sequence,
\* each with its own accumulation buffer, ends as the first did (the same
\* Message, or the same error), whatever state the BcContext is in at the
\* second call; no step of a call changes the BcContext.
C15_SameOutcomeTwice ==
    /\ []((call = 2 /\ pc = "done") => result = first.result)
    /\ [][pc # "done" => context' = context]_vars

\* a message with a binary payload was decoded twice, the second time with
\* a BcContext in another state than at the first call
C15_Witness ==
    /\ call = 2 /\ pc = "done"
    /\ context # first.context
    /\ result.kind = "Ok" /\ result = first.result
    /\ result.val.body.tag = "ModernMsg"
    /\ result.val.body.msg.payload.tag = "Binary"

-----------------------------------------------------------------------------
(* C16 *)

\* a modern header of the extended-header set with payload_offset < body_len,
\* in a buffer that holds at least body_len body bytes
ExtendedSplit ==
    /\ Parsed /\ ModernHeader
    /\ has_payload_offset(hout.val.class)
    /\ hout.val.payload_offset.some
    /\ U32Lt(hout.val.payload_offset.v, hout.val.body_len)
    /\ ~GtLen(hout.val.body_len, Len(hout.rest))

-----------------------------------------------------------------------------
(* C17 *)

\* bytes of the buffer the header parser consumed
HeaderConsumed == Len(input) - Len(hout.rest)

\* C17: a header the header parser produces carries payload_offset if and
\* only if its class is in the extended-header set; the parser has consumed
\* exactly the first 24 bytes of the buffer when it does and exactly the
\* first 20 when it does not.
C17_PayloadOffsetIffExtended ==
    (HeaderParsed /\ hout.kind = "Ok") =>
        /\ hout.val.payload_offset.some <=> has_payload_offset(hout.val.class)
        /\ HeaderConsumed = (IF hout.val.payload_offset.some THEN 24 ELSE 20)
        /\ hout.rest = Drop(input, HeaderConsumed)
        /\ hout.val.payload_offset.some =>
              hout.val.payload_offset.v = le_u32(SubSeq(input, 21, 24)).val

\* a header of class 0x0000 was parsed with its payload_offset out of a
\* buffer that goes on after the 24 bytes
C17_Witness ==
    /\ HeaderParsed /\ hout.kind = "Ok"
    /\ hout.val.class = CLASS_MODERN_24_ALT
    /\ hout.val.payload_offset.some
    /\ HeaderConsumed = 24 /\ Len(input) > 24

-----------------------------------------------------------------------------
(* C18 *)

\* a natural number that bounds the steps the call can still take: three
\* per read call the source can still answer (one per byte, one for the
\* end-of-stream), and the steps left in the current pass through the loop
Rank ==
    3 * (Len(rdr) + (IF eof_seen THEN 0 ELSE 1))
      + (IF pc = "parse" THEN 2 ELSE IF pc = "read" THEN 1 ELSE 0)

\* C18: a call on a source that delivers finitely many bytes and then
\* end-of-stream terminates (every step of the call lowers Rank, and the
\* call is never stuck before it has returned), and it ends with a Message,
\* a parse error or an I/O error; every pass through the loop that does not
\* return has appended at least one byte before the parser runs again.
C18_Terminates ==
    /\ [][Rank' < Rank]_vars
    /\ [](pc \in {"parse", "read", "done"})
    /\ [](pc = "parse" => bc_msg(input).kind \in {"Ok", "Incomplete", "Error"})
    /\ [](pc = "done" => result.kind \in {"Ok", "NomError", "IoError"})
    /\ [][(pc = "read" /\ pc' = "parse") => got' > 0]_vars
    /\ [][(pc = "read" /\ pc' # "done") => Len(input') = Len(input) + (got' - got)]_vars

-----------------------------------------------------------------------------
(* C19 *)

\* header length + body_len of the message at the head of the buffer, once
\* the buffer holds its header
MessageLen(h) == (Len(input) - Len(h.rest)) + h.val.body_len.lo

\* the buffer does not go beyond the message whose header it holds
WithinMessage(h) == h.kind = "Ok" => Len(input) <= MessageLen(h)

\* C19: at every point of a call the accumulation buffer is a prefix of the
\* bytes of the message being decoded (it never goes beyond header length +
\* body_len), and when the parse completes nothing of the buffer is left
\* unconsumed, however the source splits its bytes into chunks.
C19_NoReadAhead ==
    /\ WithinMessage(bc_header(input))
    /\ (pc = "done" /\ result.kind = "Ok") => out.rest = <<>>

-----------------------------------------------------------------------------
(* C20 *)

\* C20: a successful call has taken exactly header length + body_len bytes
\* from the source, for a modern message, a legacy login and a legacy
\* message of unknown msg_id alike: what is left in the source starts with
\* the header of the next message.
C20_TakesWholeMessage ==
    (pc = "done" /\ result.kind = "Ok") =>
        /\ hout.kind = "Ok"
        /\ Len(input) = MessageLen(hout)

====
